---- MODULE Spec2Model ----
(***************************************************************************)
(* wedplan: wedding seating optimisation.                                  *)
(*                                                                         *)
(* One run of the backend on one request: the request is parsed into an    *)
(* OptimizeRequest (domain/models.py), then solve_seating (solver/cp_sat.py)*)
(* validates and maps it (solver/mapping.py), allocates the decision        *)
(* variables, posts the constraints (solver/constraints.py), builds the     *)
(* objective (solver/objective.py), runs the CP-SAT solver once and         *)
(* extracts the response (solver/extract.py).                               *)
(*                                                                         *)
(* The CP-SAT solver is opaque: it answers OPTIMAL with an assignment that  *)
(* satisfies every posted constraint and maximises the posted objective,    *)
(* FEASIBLE with any assignment that satisfies every posted constraint,     *)
(* INFEASIBLE when no assignment does, UNKNOWN when the time limit ends the *)
(* search without an incumbent.                                             *)
(*                                                                         *)
(* Indices are 0-based as in the code: guest g in 0..G-1, table t in        *)
(* 0..T-1, seat s in 0..cap[t]-1.  An optional value (None in the code) is  *)
(* a set with no element, a present value v is {v}.                         *)
(***************************************************************************)
EXTENDS Integers, Sequences, FiniteSets, TLC

VARIABLES
    raw,            \* the request payload as received
    pc,             \* position of the run in the pipeline
    error,          \* the exception raised, if any
    mapping,        \* ProblemMapping built by create_mapping
    num_vars,       \* boolean variables allocated in the CpModel so far
    posted,         \* constraint families posted to the CpModel so far
    colocated_vars, \* keys of build_objective's colocated_vars dict
    adjacent_vars,  \* keys of build_objective's adjacent_vars dict
    objective_terms,\* build_objective's objective_terms list
    solve_calls,    \* number of calls of solver.solve
    x,              \* the solver's assignment of x[g,t,s]: guest -> set of <<t,s>>
    solver_status,  \* the status code solver.solve returned, if it was called
    response        \* the OptimizeResponse returned

vars == <<raw, pc, error, mapping, num_vars, posted, colocated_vars,
          adjacent_vars, objective_terms, solve_calls, x, solver_status, response>>

(***************************************************************************)
(* Bounds of the model.                                                    *)
(***************************************************************************)
MaxGuests == 3
MaxCap == 2

(***************************************************************************)
(* Program constants.                                                      *)
(***************************************************************************)
MinCapacity == 2
MinScore == 0
MinAdjacencyBonus == 0

(***************************************************************************)
(* Helpers on sequences and sets.                                          *)
(***************************************************************************)
Range(seq) == {seq[i] : i \in 1..Len(seq)}

SetMax(S) == CHOOSE m \in S : \A n \in S : n <= m

SetMin(S) == CHOOSE m \in S : \A n \in S : m <= n

RECURSIVE SumSeq(_)
SumSeq(seq) == IF seq = <<>> THEN 0 ELSE seq[1] + SumSeq(Tail(seq))

Ids(items) == [i \in 1..Len(items) |-> items[i].id]

(***************************************************************************)
(* Request models (domain/models.py).  Each operator is the field          *)
(* validation pydantic performs when the model is constructed.             *)
(***************************************************************************)
TableIn(t) == t.capacity >= MinCapacity

AffinityEdgeIn(e) ==
    /\ e.score >= MinScore
    /\ \A bonus \in e.adjacency_bonus : bonus >= MinAdjacencyBonus

GroupIn(g) == Len(g.guest_ids) >= 1

SolveOptions(o) == o.adjacency_bonus_weight >= 0

OptimizeRequest(r) ==
    /\ Len(r.tables) >= 1
    /\ Len(r.guests) >= 1
    /\ \A i \in 1..Len(r.tables) : TableIn(r.tables[i])
    /\ \A i \in 1..Len(r.groups) : GroupIn(r.groups[i])
    /\ \A i \in 1..Len(r.affinities) : AffinityEdgeIn(r.affinities[i])
    /\ SolveOptions(r.options)

(***************************************************************************)
(* Exceptions (domain/errors.py).                                          *)
(***************************************************************************)
NoError == [kind |-> "none", entity |-> "", id |-> "", context |-> ""]

DuplicateIdError(entity_type, entity_id) ==
    [kind |-> "DuplicateId", entity |-> entity_type, id |-> entity_id, context |-> ""]

GuestNotFoundError(guest_id, where, ref) ==
    [kind |-> "GuestNotFound", entity |-> where, id |-> guest_id, context |-> ref]

SchemaError == [kind |-> "SchemaError", entity |-> "", id |-> "", context |-> ""]

(***************************************************************************)
(* Validation and mapping (solver/mapping.py).                             *)
(***************************************************************************)
\* Positions of the items whose id was already seen when the loop reaches them.
Repeats(ids) == {j \in 1..Len(ids) : \E i \in 1..(j - 1) : ids[i] = ids[j]}

\* The loop with the membership test skipped on the first two items.
_validate_unique_ids_from_third(items, entity_type) ==
    LET ids == Ids(items)
        late == {j \in Repeats(ids) : j >= 3}
    IN  IF late = {} THEN NoError
        ELSE DuplicateIdError(entity_type, ids[SetMin(late)])

\* _validate_unique_ids: the error raised, or NoError.
_validate_unique_ids(items, entity_type) ==
    LET ids == Ids(items)
    IN  IF Repeats(ids) = {} THEN NoError
        ELSE DuplicateIdError(entity_type, ids[SetMin(Repeats(ids))])

\* The group loop with the seen.add(group.id) line lost: no id is ever seen twice.
_validate_unique_group_ids_never_seen(groups) == NoError

_validate_unique_group_ids(groups) ==
    LET ids == Ids(groups)
    IN  IF Repeats(ids) = {} THEN NoError
        ELSE DuplicateIdError("group", ids[SetMin(Repeats(ids))])

\* {item.id: i for i, item in enumerate(items)}: a later item overwrites an earlier one.
IdToIndex(items) ==
    [id \in Range(Ids(items)) |->
        SetMax({i \in 1..Len(items) : items[i].id = id}) - 1]

_build_guest_id_map(guests) == IdToIndex(guests)

\* Positions <<group, member>> of the group members that name no guest, in loop order.
UnknownMembers(groups, guest_id_to_index) ==
    {p \in UNION {{<<i, k>> : k \in 1..Len(groups[i].guest_ids)} : i \in 1..Len(groups)} :
        groups[p[1]].guest_ids[p[2]] \notin DOMAIN guest_id_to_index}

FirstPair(P) ==
    CHOOSE p \in P : \A q \in P : p[1] < q[1] \/ (p[1] = q[1] /\ p[2] <= q[2])

\* The error raised without the group: GuestNotFoundError(guest_id, "group").
_build_group_info_unnamed_group(groups, guest_id_to_index) ==
    LET bad == UnknownMembers(groups, guest_id_to_index)
    IN  IF bad # {}
        THEN LET p == FirstPair(bad)
             IN  [error |-> GuestNotFoundError(groups[p[1]].guest_ids[p[2]], "group", ""),
                  groups |-> <<>>,
                  group_id_to_index |-> <<>>]
        ELSE [error |-> NoError,
              groups |-> [i \in 1..Len(groups) |->
                            [id |-> groups[i].id,
                             index |-> i - 1,
                             guest_indices |->
                                [k \in 1..Len(groups[i].guest_ids) |->
                                    guest_id_to_index[groups[i].guest_ids[k]]]]],
              group_id_to_index |-> IdToIndex(groups)]

\* _build_group_info: [error, groups, group_id_to_index].
_build_group_info(groups, guest_id_to_index) ==
    LET bad == UnknownMembers(groups, guest_id_to_index)
    IN  IF bad # {}
        THEN LET p == FirstPair(bad)
             IN  [error |-> GuestNotFoundError(groups[p[1]].guest_ids[p[2]],
                                               "group", groups[p[1]].id),
                  groups |-> <<>>,
                  group_id_to_index |-> <<>>]
        ELSE [error |-> NoError,
              groups |-> [i \in 1..Len(groups) |->
                            [id |-> groups[i].id,
                             index |-> i - 1,
                             guest_indices |->
                                [k \in 1..Len(groups[i].guest_ids) |->
                                    guest_id_to_index[groups[i].guest_ids[k]]]]],
              group_id_to_index |-> IdToIndex(groups)]

NoMapping == [valid |-> FALSE]

\* create_mapping: [error, mapping].
create_mapping(request) ==
    LET e1 == _validate_unique_ids(request.tables, "table")
        e2 == _validate_unique_ids(request.guests, "guest")
        e3 == _validate_unique_group_ids(request.groups)
        guest_id_to_index == _build_guest_id_map(request.guests)
        built == _build_group_info(request.groups, guest_id_to_index)
    IN  IF e1 # NoError THEN [error |-> e1, mapping |-> NoMapping]
        ELSE IF e2 # NoError THEN [error |-> e2, mapping |-> NoMapping]
        ELSE IF e3 # NoError THEN [error |-> e3, mapping |-> NoMapping]
        ELSE IF built.error # NoError THEN [error |-> built.error, mapping |-> NoMapping]
        ELSE [error |-> NoError,
              mapping |->
                [valid |-> TRUE,
                 tables |-> [i \in 1..Len(request.tables) |->
                                [id |-> request.tables[i].id,
                                 index |-> i - 1,
                                 capacity |-> request.tables[i].capacity]],
                 guests |-> [i \in 1..Len(request.guests) |->
                                [id |-> request.guests[i].id, index |-> i - 1]],
                 groups |-> built.groups,
                 guest_id_to_index |-> guest_id_to_index,
                 table_id_to_index |-> IdToIndex(request.tables),
                 group_id_to_index |-> built.group_id_to_index,
                 total_seats |->
                    SumSeq([i \in 1..Len(request.tables) |-> request.tables[i].capacity])]]

num_guests(m) == Len(m.guests)

num_tables(m) == Len(m.tables)

Guests(m) == 0..(num_guests(m) - 1)

Tables(m) == 0..(num_tables(m) - 1)

capacity(m, t) == m.tables[t + 1].capacity

SeatsOf(m, t) == 0..(capacity(m, t) - 1)

\* The <<t, s>> pairs over which x[g, t, s] is defined for every guest g.
Seats(m) == UNION {{<<t, s>> : s \in SeatsOf(m, t)} : t \in Tables(m)}

(***************************************************************************)
(* Decision variables (solver/cp_sat.py).  An assignment xv of the x        *)
(* variables maps each guest to the set of <<t, s>> whose x[g,t,s] is true. *)
(***************************************************************************)
\* Number of boolean variables _create_decision_variables allocates.
_create_decision_variables(m) ==
    num_guests(m) * num_tables(m) + num_guests(m) * m.total_seats

X(xv, g, t, s) == <<t, s>> \in xv[g]

(***************************************************************************)
(* Constraints (solver/constraints.py), as predicates on an assignment.    *)
(***************************************************************************)
\* add_at_most_one in the place of add_exactly_one: a guest may have no seat.
each_guest_at_most_one_seat(row) == Cardinality(row) <= 1

\* model.add_exactly_one(x[g, t, s] for t, s): on the row of one guest.
each_guest_exactly_one_seat(row) == Cardinality(row) = 1

\* The seat loop run over the first table only.
each_seat_at_most_one_guest_first_table(xv, m) ==
    \A s \in SeatsOf(m, 0) :
        Cardinality({g \in Guests(m) : X(xv, g, 0, s)}) <= 1

\* model.add_at_most_one(x[g, t, s] for g): on every seat.
each_seat_at_most_one_guest(xv, m) ==
    \A p \in Seats(m) :
        Cardinality({g \in Guests(m) : X(xv, g, p[1], p[2])}) <= 1

\* The guest loop alone: the loop over the seats posts nothing.
add_assignment_constraints_guests_only(xv, m) ==
    \A g \in Guests(m) : each_guest_exactly_one_seat(xv[g])

add_assignment_constraints(xv, m) ==
    /\ \A g \in Guests(m) : each_guest_exactly_one_seat(xv[g])
    /\ each_seat_at_most_one_guest(xv, m)

\* link_y_to_x: the value add_max_equality forces on y[g, t].
link_y_to_x(xv, m) ==
    [g \in Guests(m) |->
        [t \in Tables(m) |-> \E s \in SeatsOf(m, t) : X(xv, g, t, s)]]

\* Block seats: start, start+1, ..., start+n-1 (mod cap) of table t.
block_seats(m, t, start, n) ==
    {(start + i) % capacity(m, t) : i \in 0..(n - 1)}

\* The constraints enforced by one block_var that is true.
block_holds(xv, group, m, t, start) ==
    LET seats == block_seats(m, t, start, Len(group))
    IN  /\ \A k \in 1..Len(group) : \E s \in seats : X(xv, group[k], t, s)
        /\ \A s \in seats : \E k \in 1..Len(group) : X(xv, group[k], t, s)

\* add_adjacent_group_constraints on one assignment; a group is a tuple of guest
\* indices.  Exactly one block_var is true and the false ones enforce nothing.
add_adjacent_group_constraints(xv, yv, adjacent_groups, m) ==
    \A i \in 1..Len(adjacent_groups) :
        LET group == adjacent_groups[i]
            n == Len(group)
            blocks == {b \in Seats(m) : n <= capacity(m, b[1])}
        IN  /\ blocks # {} => \E b \in blocks : block_holds(xv, group, m, b[1], b[2])
            /\ n >= 2 =>
                    \A k \in 2..n :
                        \A t \in Tables(m) : yv[group[1]][t] = yv[group[k]][t]

\* add_same_table_constraints, its validation loop: the error raised, or NoError.
same_table_error(groups, m) ==
    LET bad == UnknownMembers(groups, m.guest_id_to_index)
    IN  IF bad = {} THEN NoError
        ELSE LET p == FirstPair(bad)
             IN  GuestNotFoundError(groups[p[1]].guest_ids[p[2]],
                                    "same_table constraint", "")

\* The loop over indices[1:] stopped one member early.
add_same_table_constraints_short(yv, groups, m) ==
    \A i \in 1..Len(groups) :
        LET indices == [k \in 1..Len(groups[i].guest_ids) |->
                            m.guest_id_to_index[groups[i].guest_ids[k]]]
        IN  Len(indices) >= 2 =>
                LET first == indices[1]
                IN  \A k \in 2..(Len(indices) - 1) :
                        \A t \in Tables(m) : yv[first][t] = yv[indices[k]][t]

\* add_same_table_constraints, the constraints posted: y[first, t] == y[other, t].
add_same_table_constraints(yv, groups, m) ==
    \A i \in 1..Len(groups) :
        LET indices == [k \in 1..Len(groups[i].guest_ids) |->
                            m.guest_id_to_index[groups[i].guest_ids[k]]]
        IN  Len(indices) >= 2 =>
                LET first == indices[1]
                IN  \A k \in 2..Len(indices) :
                        \A t \in Tables(m) : yv[first][t] = yv[indices[k]][t]

(***************************************************************************)
(* Objective (solver/objective.py).                                        *)
(***************************************************************************)
\* The loop over range(num_tables - 1): no same_table_t for the last table.
_create_colocated_var_short(yv, i, j, m) ==
    LET same_table_t == [t \in 0..(num_tables(m) - 2) |-> yv[i][t] /\ yv[j][t]]
    IN  \E t \in 0..(num_tables(m) - 2) : same_table_t[t]

\* _create_colocated_var: the value its constraints force on colocated[i, j].
_create_colocated_var(yv, i, j, m) ==
    LET same_table_t == [t \in Tables(m) |-> yv[i][t] /\ yv[j][t]]
    IN  \E t \in Tables(m) : same_table_t[t]

\* _create_adjacent_var: the value its constraints force on adjacent[i, j].
_create_adjacent_var(xv, i, j, m) ==
    \E p \in Seats(m) :
        LET t == p[1]
            s == p[2]
            right == (s + 1) % capacity(m, t)
        IN  \/ X(xv, i, t, s) /\ X(xv, j, t, right)
            \/ X(xv, j, t, s) /\ X(xv, i, t, right)

NoObjective ==
    [error |-> NoError, colocated_vars |-> {}, adjacent_vars |-> {},
     objective_terms |-> <<>>, allocated |-> 0]

\* One pass of the loop with the key (i, j) in the order the edge gives it.
edge_step_key_as_given(edge, m, adjacency_bonus_weight, acc) ==
    IF edge.a \notin DOMAIN m.guest_id_to_index
    THEN [acc EXCEPT !.error = GuestNotFoundError(edge.a, "affinity edge", "")]
    ELSE IF edge.b \notin DOMAIN m.guest_id_to_index
    THEN [acc EXCEPT !.error = GuestNotFoundError(edge.b, "affinity edge", "")]
    ELSE
        LET i == m.guest_id_to_index[edge.a]
            j == m.guest_id_to_index[edge.b]
            key == <<i, j>>
            acc1 == [acc EXCEPT
                        !.colocated_vars = @ \cup {key},
                        !.allocated = @ + (IF key \in acc.colocated_vars
                                           THEN 0 ELSE 1 + num_tables(m))]
            acc2 == IF edge.score > 0
                    THEN [acc1 EXCEPT !.objective_terms =
                            Append(@, [coef |-> edge.score, var |-> "colocated", key |-> key])]
                    ELSE acc1
        IN  IF \E b \in edge.adjacency_bonus : b > 0
            THEN LET bonus == adjacency_bonus_weight *
                                (CHOOSE b \in edge.adjacency_bonus : TRUE)
                 IN  [acc2 EXCEPT
                        !.adjacent_vars = @ \cup {key},
                        !.allocated = @ + (IF key \in acc.adjacent_vars
                                           THEN 0 ELSE 1 + 2 * m.total_seats),
                        !.objective_terms =
                            Append(@, [coef |-> bonus, var |-> "adjacent", key |-> key])]
            ELSE acc2

\* One pass of the loop over the affinity edges.
edge_step(edge, m, adjacency_bonus_weight, acc) ==
    IF edge.a \notin DOMAIN m.guest_id_to_index
    THEN [acc EXCEPT !.error = GuestNotFoundError(edge.a, "affinity edge", "")]
    ELSE IF edge.b \notin DOMAIN m.guest_id_to_index
    THEN [acc EXCEPT !.error = GuestNotFoundError(edge.b, "affinity edge", "")]
    ELSE
        LET i == m.guest_id_to_index[edge.a]
            j == m.guest_id_to_index[edge.b]
            key == <<IF i <= j THEN i ELSE j, IF i <= j THEN j ELSE i>>
            acc1 == [acc EXCEPT
                        !.colocated_vars = @ \cup {key},
                        !.allocated = @ + (IF key \in acc.colocated_vars
                                           THEN 0 ELSE 1 + num_tables(m))]
            acc2 == IF edge.score > 0
                    THEN [acc1 EXCEPT !.objective_terms =
                            Append(@, [coef |-> edge.score, var |-> "colocated", key |-> key])]
                    ELSE acc1
        IN  IF \E b \in edge.adjacency_bonus : b > 0
            THEN LET bonus == adjacency_bonus_weight *
                                (CHOOSE b \in edge.adjacency_bonus : TRUE)
                 IN  [acc2 EXCEPT
                        !.adjacent_vars = @ \cup {key},
                        !.allocated = @ + (IF key \in acc.adjacent_vars
                                           THEN 0 ELSE 1 + 2 * m.total_seats),
                        !.objective_terms =
                            Append(@, [coef |-> bonus, var |-> "adjacent", key |-> key])]
            ELSE acc2

RECURSIVE edge_loop(_, _, _, _)
edge_loop(edges, m, adjacency_bonus_weight, acc) ==
    IF edges = <<>> \/ acc.error # NoError THEN acc
    ELSE edge_loop(Tail(edges), m, adjacency_bonus_weight,
                   edge_step(Head(edges), m, adjacency_bonus_weight, acc))

\* build_objective: [error, colocated_vars, adjacent_vars, objective_terms, allocated].
build_objective(affinities, m, adjacency_bonus_weight) ==
    edge_loop(affinities, m, adjacency_bonus_weight, NoObjective)

\* Value of one boolean variable of the objective under the assignment xv.
VarValue(term, xv, m) ==
    LET holds == IF term.var = "colocated"
                 THEN _create_colocated_var(link_y_to_x(xv, m), term.key[1], term.key[2], m)
                 ELSE _create_adjacent_var(xv, term.key[1], term.key[2], m)
    IN  IF holds THEN 1 ELSE 0

\* model.maximize(sum(objective_terms)), or model.maximize(0): the value under xv.
ObjectiveValue(terms, xv, m) ==
    SumSeq([k \in 1..Len(terms) |-> terms[k].coef * VarValue(terms[k], xv, m)])

(***************************************************************************)
(* The solver (ortools CpSolver.solve), opaque.                            *)
(***************************************************************************)
UNKNOWN == 0
MODEL_INVALID == 1
FEASIBLE == 2
INFEASIBLE == 3
OPTIMAL == 4

NoAssignment == <<>>

\* Every constraint solve_seating posts, on one assignment.
ModelHolds(xv, groups, m) ==
    /\ add_assignment_constraints(xv, m)
    /\ add_same_table_constraints(link_y_to_x(xv, m), groups, m)

\* The assignments that satisfy the model.
Solutions(groups, m) ==
    LET rows == {row \in SUBSET Seats(m) : each_guest_exactly_one_seat(row)}
    IN  {xv \in [Guests(m) -> rows] : ModelHolds(xv, groups, m)}

\* A solver that reports OPTIMAL on any assignment that satisfies the model.
SolverOutcomes_optimal_unproven(groups, m, terms) ==
    LET sols == Solutions(groups, m)
    IN       {[status |-> OPTIMAL, x |-> xv] : xv \in sols}
        \cup {[status |-> FEASIBLE, x |-> xv] : xv \in sols}
        \cup (IF sols = {} THEN {[status |-> INFEASIBLE, x |-> NoAssignment]} ELSE {})
        \cup {[status |-> UNKNOWN, x |-> NoAssignment]}

\* What solver.solve may answer: a status code and the assignment it holds.
SolverOutcomes(groups, m, terms) ==
    LET sols == Solutions(groups, m)
        best == SetMax({ObjectiveValue(terms, xv, m) : xv \in sols})
    IN       {[status |-> OPTIMAL, x |-> xv] :
                xv \in {v \in sols : ObjectiveValue(terms, v, m) = best}}
        \cup {[status |-> FEASIBLE, x |-> xv] : xv \in sols}
        \cup (IF sols = {} THEN {[status |-> INFEASIBLE, x |-> NoAssignment]} ELSE {})
        \cup {[status |-> UNKNOWN, x |-> NoAssignment]}

(***************************************************************************)
(* Extraction (solver/extract.py).                                         *)
(***************************************************************************)
\* The lookup with "MODEL_INVALID" as the default of status_map.get.
_status_to_string_default_invalid(status) ==
    CASE status = 0 -> "UNKNOWN"
      [] status = 1 -> "MODEL_INVALID"
      [] status = 2 -> "FEASIBLE"
      [] status = 3 -> "INFEASIBLE"
      [] status = 4 -> "OPTIMAL"
      [] OTHER -> "MODEL_INVALID"

_status_to_string(status) ==
    CASE status = 0 -> "UNKNOWN"
      [] status = 1 -> "MODEL_INVALID"
      [] status = 2 -> "FEASIBLE"
      [] status = 3 -> "INFEASIBLE"
      [] status = 4 -> "OPTIMAL"
      [] OTHER -> "UNKNOWN"

NoResponse == [status |-> "none", objective_value |-> {}, tables |-> <<>>]

\* The seat loop numbering the entries from 1.
extract_solution_one_based(status, xv, m, objective_value) ==
    LET status_str == _status_to_string(status)
    IN  IF status_str \notin {"OPTIMAL", "FEASIBLE"}
        THEN [status |-> status_str, objective_value |-> {}, tables |-> <<>>]
        ELSE [status |-> status_str,
              objective_value |-> {objective_value},
              tables |->
                [ti \in 1..num_tables(m) |->
                    [table_id |-> m.tables[ti].id,
                     seats |->
                        [si \in 1..m.tables[ti].capacity |->
                            LET here == {g \in Guests(m) : X(xv, g, ti - 1, si - 1)}
                            IN  [seat_index |-> si,
                                 guest_id |-> IF here = {} THEN {}
                                              ELSE {m.guests[SetMin(here) + 1].id}]]]]]

extract_solution(status, xv, m, objective_value) ==
    LET status_str == _status_to_string(status)
    IN  IF status_str \notin {"OPTIMAL", "FEASIBLE"}
        THEN [status |-> status_str, objective_value |-> {}, tables |-> <<>>]
        ELSE [status |-> status_str,
              objective_value |-> {objective_value},
              tables |->
                [ti \in 1..num_tables(m) |->
                    [table_id |-> m.tables[ti].id,
                     seats |->
                        [si \in 1..m.tables[ti].capacity |->
                            LET here == {g \in Guests(m) : X(xv, g, ti - 1, si - 1)}
                            IN  [seat_index |-> si - 1,
                                 guest_id |-> IF here = {} THEN {}
                                              ELSE {m.guests[SetMin(here) + 1].id}]]]]]

(***************************************************************************)
(* The requests the model is run on.                                       *)
(***************************************************************************)
T(id, cap) == [id |-> id, capacity |-> cap]

P(id) == [id |-> id, partner_id |-> {}]

\* A guest that names a partner.
PartnerOf(id, partner) == [id |-> id, partner_id |-> {partner}]

G(id, members) == [id |-> id, guest_ids |-> members]

E(a, b, score, bonus) == [a |-> a, b |-> b, score |-> score, adjacency_bonus |-> bonus]

O(allow, weight) == [allow_empty_seats |-> allow, adjacency_bonus_weight |-> weight]

Request(tables, guests, groups, affinities, options) ==
    [tables |-> tables, guests |-> guests, groups |-> groups,
     affinities |-> affinities, options |-> options, adjacent_groups |-> <<>>]

\* A payload that also carries the key adjacent_groups: lists of guest ids.
WithAdjacentGroups(request, adjacent_groups) ==
    [request EXCEPT !.adjacent_groups = adjacent_groups]

GuestNames == <<"a", "b", "c", "d", "e">>

GuestPrefix(n) == [i \in 1..n |-> P(GuestNames[i])]

ValidTableLists ==
         {<<T("t1", c)>> : c \in MinCapacity..MaxCap}
    \cup {<<T("t1", c[1]), T("t2", c[2])>> :
            c \in (MinCapacity..MaxCap) \X (MinCapacity..MaxCap)}

TableLists ==
    ValidTableLists \cup {<<>>, <<T("t1", 1)>>, <<T("t1", 2), T("t1", 2)>>}

GuestLists ==
    {GuestPrefix(n) : n \in 0..MaxGuests}
        \cup {<<P("a"), P("a")>>, <<P("a"), P("b"), P("a")>>}

GroupLists ==
    { <<>>,
      <<G("g1", <<"a", "b">>)>>,
      <<G("g1", <<"a", "b", "c">>)>>,
      <<G("g1", <<"a", "zz">>)>>,
      <<G("g1", <<"a", "b", "zz">>)>>,
      <<G("g1", <<"a", "a">>)>>,
      <<G("g1", <<>>)>>,
      <<G("g1", <<"a">>), G("g2", <<"b">>)>>,
      <<G("g1", <<"a", "b">>), G("g1", <<"c">>)>>,
      <<G("g1", <<"a", "b">>), G("g2", <<"b", "c">>)>>,
      <<G("g1", <<"a", "zz">>), G("g1", <<"b">>)>> }

\* Requests that vary the ids, the references and the sizes.
ValidationRequests ==
    {Request(r[1], r[2], r[3], r[4], O(r[5], 1)) :
        r \in TableLists \X GuestLists \X GroupLists
              \X { <<>>,
                   <<E("a", "b", 1, {})>>,
                   <<E("a", "zz", 1, {})>>,
                   <<E("g1", "g2", 1, {})>>,
                   <<E("a", "b", -1, {})>> }
              \X BOOLEAN}

Edges ==
    { E("a", "b", 1, {}), E("b", "a", 2, {}), E("a", "b", 0, {}),
      E("a", "c", 1, {}), E("b", "c", 1, {1}), E("a", "b", 0, {1}),
      E("a", "b", 1, {1}), E("a", "b", -1, {}) }

EdgeLists ==
    {<<>>} \cup {<<e>> : e \in Edges} \cup {<<e[1], e[2]>> : e \in Edges \X Edges}

\* Requests that vary the affinity list.
ObjectiveRequests ==
    {Request(r[1], GuestPrefix(r[2]), r[3], r[4], O(TRUE, r[5])) :
        r \in ValidTableLists \X (2..MaxGuests)
              \X {<<>>, <<G("g1", <<"a", "b">>)>>}
              \X EdgeLists \X {0, 1}}

\* Scenario B: negative affinity separates (tests/test_affinity.py).
ScenarioB ==
    Request(<<T("t1", 2), T("t2", 2)>>, <<P("alice"), P("bob")>>,
            <<G("g_alice", <<"alice">>), G("g_bob", <<"bob">>)>>,
            <<E("g_alice", "g_bob", -1, {})>>, O(TRUE, 1))

\* Scenario C: mixed affinities (scratch/experiment_negative_affinity.py).
ScenarioC ==
    Request(<<T("t1", 3), T("t2", 3)>>, <<P("A"), P("B"), P("C"), P("D")>>,
            <<G("gA", <<"A">>), G("gB", <<"B">>), G("gC", <<"C">>), G("gD", <<"D">>)>>,
            <<E("gA", "gB", 1, {}), E("gA", "gC", -1, {}), E("gC", "gD", 1, {})>>,
            O(TRUE, 1))

\* Scenario D: multi-member group cohesion (tests/test_affinity.py).
ScenarioD ==
    Request(<<T("t1", 4), T("t2", 4)>>,
            <<P("alice"), P("bob"), P("carol"), P("dave")>>,
            <<G("family", <<"alice", "bob", "carol">>), G("single", <<"dave">>)>>,
            <<>>, O(TRUE, 1))

\* Four guests on two tables of two (tests/test_solver_small.py).
FourGuests ==
    Request(<<T("t1", 2), T("t2", 2)>>, <<P("a"), P("b"), P("c"), P("d")>>, <<>>,
            <<E("a", "b", 100, {}), E("c", "d", 100, {}),
              E("a", "c", 10, {}), E("b", "d", 10, {})>>,
            O(FALSE, 1))

\* One table of four; a and b are declared an adjacent group.
AdjacentPair ==
    WithAdjacentGroups(
        Request(<<T("t1", 4)>>, GuestPrefix(3), <<>>, <<>>, O(TRUE, 1)),
        <<(<<"a", "b">>)>>)

\* One table of three filled by an adjacent group of three.
AdjacentFullTable ==
    WithAdjacentGroups(
        Request(<<T("t1", 3)>>, GuestPrefix(3), <<>>, <<>>, O(TRUE, 1)),
        <<(<<"a", "b", "c">>)>>)

\* Two tables, of three and of two; b and c are declared an adjacent group.
AdjacentTwoTables ==
    WithAdjacentGroups(
        Request(<<T("t1", 3), T("t2", 2)>>, GuestPrefix(3), <<>>, <<>>, O(TRUE, 1)),
        <<(<<"b", "c">>)>>)

AdjacentRequests == {AdjacentPair, AdjacentFullTable, AdjacentTwoTables}

\* alice and bob name each other as partner; one table of four, or two of two
\* (tests/test_partner_adjacency.py, with fewer seats).
PartnersOneTable ==
    Request(<<T("t1", 4)>>,
            <<PartnerOf("alice", "bob"), PartnerOf("bob", "alice"), P("carol")>>,
            <<>>, <<>>, O(TRUE, 1))

PartnersTwoTables ==
    Request(<<T("t1", 2), T("t2", 2)>>,
            <<PartnerOf("alice", "bob"), PartnerOf("bob", "alice")>>,
            <<>>, <<>>, O(FALSE, 1))

\* alice names bob, bob names nobody (tests/test_partner_adjacency.py).
AsymmetricPartner ==
    Request(<<T("t1", 4)>>, <<PartnerOf("alice", "bob"), P("bob")>>,
            <<>>, <<>>, O(TRUE, 1))

\* alice names herself (tests/test_partner_adjacency.py).
SelfPartner ==
    Request(<<T("t1", 4)>>, <<PartnerOf("alice", "alice")>>, <<>>, <<>>, O(TRUE, 1))

PartnerRequests == {PartnersOneTable, PartnersTwoTables, AsymmetricPartner, SelfPartner}

\* Guest b is a member of both groups; either table seats all three guests.
SharedMember ==
    Request(<<T("t1", 3), T("t2", 3)>>, <<P("a"), P("b"), P("c")>>,
            <<G("g1", <<"a", "b">>), G("g2", <<"b", "c">>)>>, <<>>, O(TRUE, 1))

Requests ==
    ValidationRequests \cup ObjectiveRequests
        \cup {ScenarioB, ScenarioC, ScenarioD, FourGuests, SharedMember}
        \cup AdjacentRequests \cup PartnerRequests

(***************************************************************************)
(* The run.                                                                *)
(***************************************************************************)
Init ==
    /\ raw \in Requests
    /\ pc = "received"
    /\ error = NoError
    /\ mapping = NoMapping
    /\ num_vars = 0
    /\ posted = {}
    /\ colocated_vars = {}
    /\ adjacent_vars = {}
    /\ objective_terms = <<>>
    /\ solve_calls = 0
    /\ x = NoAssignment
    /\ solver_status = {}
    /\ response = NoResponse

\* The request boundary: pydantic constructs the OptimizeRequest or rejects the payload.
Parse ==
    /\ pc = "received"
    /\ IF OptimizeRequest(raw)
       THEN pc' = "parsed" /\ error' = error
       ELSE pc' = "rejected" /\ error' = SchemaError
    /\ UNCHANGED <<raw, mapping, num_vars, posted, colocated_vars, adjacent_vars,
                   objective_terms, solve_calls, x, solver_status, response>>

\* solve_seating, step 1.
CreateMapping ==
    /\ pc = "parsed"
    /\ LET made == create_mapping(raw)
       IN  /\ error' = made.error
           /\ mapping' = made.mapping
           /\ pc' = IF made.error = NoError THEN "mapped" ELSE "raised"
    /\ UNCHANGED <<raw, num_vars, posted, colocated_vars, adjacent_vars,
                   objective_terms, solve_calls, x, solver_status, response>>

\* solve_seating, step 2.
CreateDecisionVariables ==
    /\ pc = "mapped"
    /\ num_vars' = num_vars + _create_decision_variables(mapping)
    /\ pc' = "variables"
    /\ UNCHANGED <<raw, error, mapping, posted, colocated_vars, adjacent_vars,
                   objective_terms, solve_calls, x, solver_status, response>>

\* solve_seating, step 3: the assignment constraints.
AddAssignmentConstraints ==
    /\ pc = "variables"
    /\ posted' = posted \cup {"assignment"}
    /\ pc' = "assignment"
    /\ UNCHANGED <<raw, error, mapping, num_vars, colocated_vars, adjacent_vars,
                   objective_terms, solve_calls, x, solver_status, response>>

\* solve_seating, step 3: y linked to x.
LinkYToX ==
    /\ pc = "assignment"
    /\ posted' = posted \cup {"link"}
    /\ pc' = "linked"
    /\ UNCHANGED <<raw, error, mapping, num_vars, colocated_vars, adjacent_vars,
                   objective_terms, solve_calls, x, solver_status, response>>

\* solve_seating, step 3: the same-table constraints of the groups.
AddSameTableConstraints ==
    /\ pc = "linked"
    /\ LET e == same_table_error(raw.groups, mapping)
       IN  /\ error' = e
           /\ posted' = IF e = NoError THEN posted \cup {"same_table"} ELSE posted
           /\ pc' = IF e = NoError THEN "same_table" ELSE "raised"
    /\ UNCHANGED <<raw, mapping, num_vars, colocated_vars, adjacent_vars,
                   objective_terms, solve_calls, x, solver_status, response>>

\* solve_seating, step 4.
BuildObjective ==
    /\ pc = "same_table"
    /\ LET built == build_objective(raw.affinities, mapping,
                                    raw.options.adjacency_bonus_weight)
       IN  /\ error' = built.error
           /\ colocated_vars' = built.colocated_vars
           /\ adjacent_vars' = built.adjacent_vars
           /\ objective_terms' = built.objective_terms
           /\ num_vars' = num_vars + built.allocated
           /\ pc' = IF built.error = NoError THEN "objective" ELSE "raised"
    /\ UNCHANGED <<raw, mapping, posted, solve_calls, x, solver_status, response>>

\* Steps 5 and 6 with a raise of InfeasibleError on the status INFEASIBLE.
Solve_raises_infeasible ==
    /\ pc = "objective"
    /\ \E out \in SolverOutcomes(raw.groups, mapping, objective_terms) :
        /\ x' = out.x
        /\ solver_status' = {out.status}
        /\ IF out.status = INFEASIBLE
           THEN /\ pc' = "raised"
                /\ error' = [kind |-> "Infeasible", entity |-> "", id |-> "", context |-> ""]
                /\ response' = response
           ELSE /\ pc' = "returned"
                /\ error' = error
                /\ response' =
                    extract_solution(out.status, out.x, mapping,
                                     IF out.x = NoAssignment THEN 0
                                     ELSE ObjectiveValue(objective_terms, out.x, mapping))
    /\ solve_calls' = solve_calls + 1
    /\ UNCHANGED <<raw, mapping, num_vars, posted, colocated_vars,
                   adjacent_vars, objective_terms>>

\* solve_seating, steps 5 and 6: one call of the solver, then extract_solution.
Solve ==
    /\ pc = "objective"
    /\ \E out \in SolverOutcomes(raw.groups, mapping, objective_terms) :
        /\ x' = out.x
        /\ solver_status' = {out.status}
        /\ response' =
            extract_solution(out.status, out.x, mapping,
                             IF out.x = NoAssignment THEN 0
                             ELSE ObjectiveValue(objective_terms, out.x, mapping))
    /\ solve_calls' = solve_calls + 1
    /\ pc' = "returned"
    /\ UNCHANGED <<raw, error, mapping, num_vars, posted, colocated_vars,
                   adjacent_vars, objective_terms>>

Next ==
    \/ Parse
    \/ CreateMapping
    \/ CreateDecisionVariables
    \/ AddAssignmentConstraints
    \/ LinkYToX
    \/ AddSameTableConstraints
    \/ BuildObjective
    \/ Solve

Spec == Init /\ [][Next]_vars

(***************************************************************************)
(* The same run with no assumption on the status code: extract_solution    *)
(* takes status as an int, and the solver may hand it any code.            *)
(***************************************************************************)
StatusCodes == (UNKNOWN - 1)..(OPTIMAL + 1)

\* A status code of any value; OPTIMAL and FEASIBLE come with an assignment.
AnyStatusOutcomes(groups, m, terms) ==
         {out \in SolverOutcomes(groups, m, terms) : out.status \in {OPTIMAL, FEASIBLE}}
    \cup {[status |-> code, x |-> NoAssignment] :
            code \in StatusCodes \ {OPTIMAL, FEASIBLE}}

\* solve_seating, steps 5 and 6, for any status code.
SolveAnyStatus ==
    /\ pc = "objective"
    /\ \E out \in AnyStatusOutcomes(raw.groups, mapping, objective_terms) :
        /\ x' = out.x
        /\ solver_status' = {out.status}
        /\ response' =
            extract_solution(out.status, out.x, mapping,
                             IF out.x = NoAssignment THEN 0
                             ELSE ObjectiveValue(objective_terms, out.x, mapping))
    /\ solve_calls' = solve_calls + 1
    /\ pc' = "returned"
    /\ UNCHANGED <<raw, error, mapping, num_vars, posted, colocated_vars,
                   adjacent_vars, objective_terms>>

AnyStatusNext ==
    \/ Parse
    \/ CreateMapping
    \/ CreateDecisionVariables
    \/ AddAssignmentConstraints
    \/ LinkYToX
    \/ AddSameTableConstraints
    \/ BuildObjective
    \/ SolveAnyStatus

AnyStatusSpec == Init /\ [][AnyStatusNext]_vars

(***************************************************************************)
(* Vocabulary of the properties: what a caller reads off the request and   *)
(* the response.                                                           *)
(***************************************************************************)
Terminal == {"rejected", "raised", "returned"}

Solved == pc = "returned" /\ response.status \in {"OPTIMAL", "FEASIBLE"}

\* The seat entries <<table position, seat position>> that carry a guest id.
SeatEntries(guest_id) ==
    {p \in UNION {{<<ti, si>> : si \in 1..Len(response.tables[ti].seats)} :
                    ti \in 1..Len(response.tables)} :
        response.tables[p[1]].seats[p[2]].guest_id = {guest_id}}

TableIdsOf(guest_id) ==
    {response.tables[p[1]].table_id : p \in SeatEntries(guest_id)}

SameTableInResponse(a, b) == TableIdsOf(a) \cap TableIdsOf(b) # {}

\* Sum over the affinity list of score times co-location in the returned tables.
ResponseAffinity ==
    SumSeq([k \in 1..Len(raw.affinities) |->
        raw.affinities[k].score *
            (IF SameTableInResponse(raw.affinities[k].a, raw.affinities[k].b)
             THEN 1 ELSE 0)])

HasDuplicate(ids) == \E i, j \in 1..Len(ids) : i # j /\ ids[i] = ids[j]

ViolatesUniqueness(r) ==
    \/ HasDuplicate(Ids(r.tables))
    \/ HasDuplicate(Ids(r.guests))
    \/ HasDuplicate(Ids(r.groups))

GroupNamesUnknownGuest(r) ==
    \E i \in 1..Len(r.groups) :
        \E k \in 1..Len(r.groups[i].guest_ids) :
            \A n \in 1..Len(r.guests) : r.guests[n].id # r.groups[i].guest_ids[k]

LargestCapacity(r) == SetMax({r.tables[i].capacity : i \in 1..Len(r.tables)})

TotalCapacity(r) == SumSeq([i \in 1..Len(r.tables) |-> r.tables[i].capacity])

HasOversizedGroup(r) ==
    \E i \in 1..Len(r.groups) : Len(r.groups[i].guest_ids) > LargestCapacity(r)

AffinityNamesUnknownGuest(r) ==
    \E k \in 1..Len(r.affinities) :
        \E id \in {r.affinities[k].a, r.affinities[k].b} :
            \A n \in 1..Len(r.guests) : r.guests[n].id # id

TooManyGuests(r) ==
    ~r.options.allow_empty_seats /\ Len(r.guests) > TotalCapacity(r)

GuestCountDiffersFromSeats(r) ==
    ~r.options.allow_empty_seats /\ Len(r.guests) # TotalCapacity(r)

\* The seat entries <<table position, seat position>> that carry no guest.
EmptySeatEntries ==
    {p \in UNION {{<<ti, si>> : si \in 1..Len(response.tables[ti].seats)} :
                    ti \in 1..Len(response.tables)} :
        response.tables[p[1]].seats[p[2]].guest_id = {}}

GuestInTwoGroups(r) ==
    \E i, j \in 1..Len(r.groups) :
        i # j /\ Range(r.groups[i].guest_ids) \cap Range(r.groups[j].guest_ids) # {}

GroupListsGuestTwice(r) ==
    \E i \in 1..Len(r.groups) : HasDuplicate(r.groups[i].guest_ids)

\* The ends of the affinity edges that are not the id of a group of the request.
EdgeEndsNotGroups(r) ==
    {id \in UNION {{r.affinities[k].a, r.affinities[k].b} : k \in 1..Len(r.affinities)} :
        \A i \in 1..Len(r.groups) : r.groups[i].id # id}

Declared(r, guest_id) == \E n \in 1..Len(r.guests) : r.guests[n].id = guest_id

\* <<i, k>> is the first member, in list order, that names no guest of the request.
FirstUnknownMember(r, i, k) ==
    /\ ~Declared(r, r.groups[i].guest_ids[k])
    /\ \A j \in 1..i :
        \A n \in 1..Len(r.groups[j].guest_ids) :
            (j < i \/ n < k) => Declared(r, r.groups[j].guest_ids[n])

\* The ids that two items of the list share.
DuplicatedIds(items) ==
    {items[i].id : i \in {j \in 1..Len(items) :
                            \E n \in 1..Len(items) : n # j /\ items[n].id = items[j].id}}

RejectedAsDuplicate(entity_type, items) ==
    /\ pc = "raised"
    /\ error.kind = "DuplicateId"
    /\ error.entity = entity_type
    /\ error.id \in DuplicatedIds(items)

\* The request passes every check of the request boundary that is not a check
\* of an affinity score.
ValidApartFromScores(r) ==
    /\ Len(r.tables) >= 1
    /\ Len(r.guests) >= 1
    /\ \A i \in 1..Len(r.tables) : r.tables[i].capacity >= 2
    /\ \A i \in 1..Len(r.groups) : r.groups[i].guest_ids # <<>>
    /\ \A k \in 1..Len(r.affinities) : \A b \in r.affinities[k].adjacency_bonus : b >= 0
    /\ r.options.adjacency_bonus_weight >= 0

\* S is a set of n seats <<t, s>> of one table that are consecutive around it,
\* the seat after the last being seat 0; caps[t] is the capacity of table t.
IsCircularBlock(S, n, caps) ==
    /\ Cardinality(S) = n
    /\ \E t \in DOMAIN caps :
        \E start \in 0..(caps[t] - 1) :
            S = {<<t, (start + k) % caps[t]>> : k \in 0..(n - 1)}

\* The adjacent groups of the payload as tuples of guest indices.
AdjacentGroupIndices(r, m) ==
    [i \in 1..Len(r.adjacent_groups) |->
        [k \in 1..Len(r.adjacent_groups[i]) |->
            m.guest_id_to_index[r.adjacent_groups[i][k]]]]

\* Every assignment of one seat per guest.
SeatAssignments(m) ==
    [Guests(m) -> {row \in SUBSET Seats(m) : each_guest_exactly_one_seat(row)}]

\* The seats <<table position, seat_index>> the response gives to the guest ids.
ResponseSeatsOf(ids) ==
    {<<p[1], response.tables[p[1]].seats[p[2]].seat_index>> :
        p \in UNION {SeatEntries(id) : id \in ids}}

\* Guests i and j of the request name each other as partner.
MutualPartners(r, i, j) ==
    /\ i # j
    /\ r.guests[i].partner_id = {r.guests[j].id}
    /\ r.guests[j].partner_id = {r.guests[i].id}

\* Guest i names itself as partner.
NamesItself(r, i) == r.guests[i].partner_id = {r.guests[i].id}

\* Guest i names another guest of the request who does not name i back.
NotNamedBack(r, i) ==
    \E j \in 1..Len(r.guests) :
        /\ r.guests[j].id # r.guests[i].id
        /\ r.guests[i].partner_id = {r.guests[j].id}
        /\ r.guests[j].partner_id # {r.guests[i].id}

\* The two seats <<table position, seat_index>> are neighbours around one table.
NeighbourSeats(p, q, caps) ==
    /\ p[1] = q[1]
    /\ \/ (p[2] + 1) % caps[p[1]] = q[2]
       \/ (q[2] + 1) % caps[p[1]] = p[2]

\* Positions of the edges of the request that join the guest ids a and b, in
\* either orientation.
EdgesOn(r, a, b) ==
    {k \in 1..Len(r.affinities) :
        {r.affinities[k].a, r.affinities[k].b} = {a, b}}

RECURSIVE SumOver(_, _)
SumOver(f, S) ==
    IF S = {} THEN 0
    ELSE LET k == CHOOSE n \in S : TRUE IN f[k] + SumOver(f, S \ {k})

\* Sum of the scores of the edges on the pair.
ScoreSum(r, a, b) ==
    SumOver([k \in 1..Len(r.affinities) |-> r.affinities[k].score], EdgesOn(r, a, b))

\* Positions of the objective terms on the co-location variable of guests i, j.
ColocatedTermsOn(i, j) ==
    {k \in 1..Len(objective_terms) :
        /\ objective_terms[k].var = "colocated"
        /\ objective_terms[k].key \in {<<i, j>>, <<j, i>>}}

\* Coefficient the objective puts on the co-location of guests i, j.
ColocationCoefficient(i, j) ==
    SumOver([k \in 1..Len(objective_terms) |-> objective_terms[k].coef],
            ColocatedTermsOn(i, j))

HasRepeatedPair(r) ==
    \E k, n \in 1..Len(r.affinities) :
        /\ k # n
        /\ {r.affinities[k].a, r.affinities[k].b} = {r.affinities[n].a, r.affinities[n].b}

\* One guest, one table of capacity >= 2, no affinity, no group.
SingleGuestSingleTable(r) ==
    /\ Len(r.guests) = 1
    /\ Len(r.tables) = 1
    /\ r.tables[1].capacity >= 2
    /\ r.affinities = <<>>
    /\ r.groups = <<>>

\* The responses another call of solve_seating on the same request may return:
\* the steps before the solver are functions of the request, so the second call
\* hands the solver the same model.
ResolveResponses ==
    {extract_solution(out.status, out.x, mapping,
                      IF out.x = NoAssignment THEN 0
                      ELSE ObjectiveValue(objective_terms, out.x, mapping)) :
        out \in SolverOutcomes(raw.groups, mapping, objective_terms)}

\* The unordered pairs of guest ids that the affinity edges join.
EdgePairs(r) ==
    {{r.affinities[k].a, r.affinities[k].b} : k \in 1..Len(r.affinities)}

\* The unordered pairs of guest ids joined by an edge of nonzero score.
ScoredPairs(r) ==
    {{r.affinities[k].a, r.affinities[k].b} :
        k \in {n \in 1..Len(r.affinities) : r.affinities[n].score # 0}}

\* The unordered pairs of guest ids that own a co-location variable.
PairsWithVariable ==
    {{mapping.guests[key[1] + 1].id, mapping.guests[key[2] + 1].id} :
        key \in colocated_vars}

\* A seating as the spec describes it: each guest on one seat, no seat shared,
\* the members of every group on one table.
Seatings(r) ==
    LET seats == UNION {{<<ti, s>> : s \in 0..(r.tables[ti].capacity - 1)} :
                            ti \in 1..Len(r.tables)}
        ids == Range(Ids(r.guests))
    IN  {f \in [ids -> seats] :
            /\ \A a, b \in ids : a # b => f[a] # f[b]
            /\ \A i \in 1..Len(r.groups) :
                \A a, b \in Range(r.groups[i].guest_ids) : f[a][1] = f[b][1]}

SeatingAffinity(r, f) ==
    SumSeq([k \in 1..Len(r.affinities) |->
        r.affinities[k].score *
            (IF f[r.affinities[k].a][1] = f[r.affinities[k].b][1] THEN 1 ELSE 0)])

(***************************************************************************)
(* Properties.                                                             *)
(***************************************************************************)
\* C1: in every OPTIMAL or FEASIBLE response each guest id of the request is the
\* guest_id of exactly one seat entry: no guest is missing, none appears twice.
ExhaustiveGuestPlacement ==
    Solved =>
        \A i \in 1..Len(raw.guests) :
            Cardinality(SeatEntries(raw.guests[i].id)) = 1

\* C1 witness: three guests seated on two tables, one seat left empty.
ExhaustiveGuestPlacementWitness ==
    /\ Solved
    /\ Len(raw.guests) = 3
    /\ Len(raw.tables) = 2
    /\ \A i \in 1..3 : Cardinality(SeatEntries(raw.guests[i].id)) = 1

NegativeAffinitySeparates ==
    (raw = ScenarioB /\ pc \in Terminal) =>
        /\ pc = "returned"
        /\ response.status = "OPTIMAL" =>
            /\ ~SameTableInResponse("alice", "bob")
            /\ response.objective_value = {0}

\* C6: scenario C (two tables of three, A-B +1, A-C -1, C-D +1) is answered, and
\* every OPTIMAL response has A with B, C with D, A apart from C and
\* objective_value 2.
MixedAffinities ==
    (raw = ScenarioC /\ pc \in Terminal) =>
        /\ pc = "returned"
        /\ response.status = "OPTIMAL" =>
            /\ SameTableInResponse("A", "B")
            /\ SameTableInResponse("C", "D")
            /\ ~SameTableInResponse("A", "C")
            /\ response.objective_value = {2}

\* C7: a domain validation error is raised before any solver variable or
\* constraint is created, and the solver is called at most once and never for a
\* request that fails validation.
ValidationBeforeModel ==
    /\ pc = "raised" => (num_vars = 0 /\ posted = {})
    /\ solve_calls <= 1
    /\ error # NoError => solve_calls = 0

\* C8: the checks run in the order uniqueness, reference validity, size and
\* capacity: a request that breaks uniqueness and another check raises
\* DuplicateId, and one that keeps uniqueness but lets a group name an unknown
\* guest raises GuestNotFound even when a group is oversized or the seats are
\* too few.
OrderingOfChecks ==
    pc \notin {"received", "parsed", "rejected"} =>
        /\ ViolatesUniqueness(raw) => error.kind = "DuplicateId"
        /\ (~ViolatesUniqueness(raw) /\ GroupNamesUnknownGuest(raw)) =>
                error.kind = "GuestNotFound"

\* C8 witness: two groups share an id and the first names an unknown guest; the
\* run ends with DuplicateId for the group id.
OrderingOfChecksWitness ==
    /\ pc = "raised"
    /\ raw.groups = <<G("g1", <<"a", "zz">>), G("g1", <<"b">>)>>
    /\ ~HasDuplicate(Ids(raw.tables))
    /\ ~HasDuplicate(Ids(raw.guests))
    /\ GroupNamesUnknownGuest(raw)
    /\ error = DuplicateIdError("group", "g1")

\* C9: a request whose only fault is a group with more members than the largest
\* table has seats ends with GroupTooLarge, without a call of the solver and
\* without a solver status.
GroupTooLargeRejected ==
    (/\ pc \in Terminal
     /\ OptimizeRequest(raw)
     /\ ~ViolatesUniqueness(raw)
     /\ ~GroupNamesUnknownGuest(raw)
     /\ ~AffinityNamesUnknownGuest(raw)
     /\ ~TooManyGuests(raw)
     /\ HasOversizedGroup(raw)) =>
        /\ pc = "raised"
        /\ error.kind = "GroupTooLarge"
        /\ solve_calls = 0

\* C10: with allow_empty_seats false and more guests than seats, a request with
\* no other fault ends with CapacityError and the solver is not called.
CapacityErrorRejected ==
    (/\ pc \in Terminal
     /\ OptimizeRequest(raw)
     /\ ~ViolatesUniqueness(raw)
     /\ ~GroupNamesUnknownGuest(raw)
     /\ ~AffinityNamesUnknownGuest(raw)
     /\ ~HasOversizedGroup(raw)
     /\ TooManyGuests(raw)) =>
        /\ pc = "raised"
        /\ error.kind = "CapacityError"
        /\ solve_calls = 0

\* C11: with allow_empty_seats false no OPTIMAL or FEASIBLE response has an empty
\* seat, and a request whose guest count differs from the total seat capacity
\* ends without a call of the solver.
NoEmptySeatsWhenForbidden ==
    ~raw.options.allow_empty_seats =>
        /\ Solved => EmptySeatEntries = {}
        /\ (pc \in Terminal /\ GuestCountDiffersFromSeats(raw)) => solve_calls = 0

\* C12: a request in which one guest id is a member of two different groups, and
\* with no other fault, ends with a validation error and is never solved.
GuestInTwoGroupsRejected ==
    (/\ pc \in Terminal
     /\ OptimizeRequest(raw)
     /\ ~ViolatesUniqueness(raw)
     /\ ~GroupNamesUnknownGuest(raw)
     /\ ~AffinityNamesUnknownGuest(raw)
     /\ ~TooManyGuests(raw)
     /\ ~HasOversizedGroup(raw)
     /\ GuestInTwoGroups(raw)) =>
        /\ pc = "raised"
        /\ solve_calls = 0

\* C13: a request whose only fault is a group that lists one guest id twice ends
\* with DuplicateGroupMember and the solver is not called.
DuplicateGroupMemberRejected ==
    (/\ pc \in Terminal
     /\ OptimizeRequest(raw)
     /\ ~ViolatesUniqueness(raw)
     /\ ~GroupNamesUnknownGuest(raw)
     /\ ~AffinityNamesUnknownGuest(raw)
     /\ ~TooManyGuests(raw)
     /\ ~HasOversizedGroup(raw)
     /\ GroupListsGuestTwice(raw)) =>
        /\ pc = "raised"
        /\ error.kind = "DuplicateGroupMember"
        /\ solve_calls = 0

\* C14: affinity edges name groups: a request with no other fault whose edges
\* all join ids of declared groups is answered by the solver, and one with an
\* edge end that is not the id of a declared group ends with GroupNotFound
\* carrying such an id.
AffinityEdgesOverGroups ==
    (/\ pc \in Terminal
     /\ OptimizeRequest(raw)
     /\ ~ViolatesUniqueness(raw)
     /\ ~GroupNamesUnknownGuest(raw)
     /\ raw.affinities # <<>>) =>
        IF EdgeEndsNotGroups(raw) = {}
        THEN pc = "returned"
        ELSE /\ pc = "raised"
             /\ error.kind = "GroupNotFound"
             /\ error.id \in EdgeEndsNotGroups(raw)

\* C15: with unique ids, a group that names an id absent from the guests list
\* ends the run with GuestNotFound carrying that id and the id of the group, and
\* no mapping is returned; when every group names declared guests only, no
\* GuestNotFound is raised for a group and the mapping is returned.
UnknownGroupMemberRejected ==
    (pc \notin {"received", "parsed", "rejected"} /\ ~ViolatesUniqueness(raw)) =>
        IF GroupNamesUnknownGuest(raw)
        THEN /\ pc = "raised"
             /\ mapping = NoMapping
             /\ error.kind = "GuestNotFound"
             /\ error.entity = "group"
             /\ \E i \in 1..Len(raw.groups) :
                    \E k \in 1..Len(raw.groups[i].guest_ids) :
                        /\ FirstUnknownMember(raw, i, k)
                        /\ error.id = raw.groups[i].guest_ids[k]
                        /\ error.context = raw.groups[i].id
        ELSE /\ ~(/\ error.kind = "GuestNotFound"
                  /\ error.entity \in {"group", "same_table constraint"})
             /\ mapping # NoMapping

\* C15 witness: the second member of g1 names no guest, and the run ended with
\* GuestNotFound for "zz" in group g1 and without a mapping.
UnknownGroupMemberRejectedWitness ==
    /\ pc = "raised"
    /\ raw.guests = GuestPrefix(2)
    /\ raw.groups = <<G("g1", <<"a", "b", "zz">>)>>
    /\ error = GuestNotFoundError("zz", "group", "g1")
    /\ mapping = NoMapping

\* C16: two tables, two guests or two groups that share an id end the run with
\* DuplicateId naming the entity type and a shared id (tables before guests
\* before groups), and a request with unique ids in each list raises no
\* DuplicateId.
UniqueIdsEnforced ==
    pc \notin {"received", "parsed", "rejected"} =>
        /\ DuplicatedIds(raw.tables) # {} => RejectedAsDuplicate("table", raw.tables)
        /\ (DuplicatedIds(raw.tables) = {} /\ DuplicatedIds(raw.guests) # {}) =>
                RejectedAsDuplicate("guest", raw.guests)
        /\ (DuplicatedIds(raw.tables) = {} /\ DuplicatedIds(raw.guests) = {}
                /\ DuplicatedIds(raw.groups) # {}) =>
                RejectedAsDuplicate("group", raw.groups)
        /\ ~ViolatesUniqueness(raw) => error.kind # "DuplicateId"

\* C16 witness: two guests share the id "a" while table and group ids are unique;
\* the run ended with DuplicateId for guest "a".
UniqueIdsEnforcedWitness ==
    /\ pc = "raised"
    /\ DuplicatedIds(raw.tables) = {}
    /\ DuplicatedIds(raw.guests) = {"a"}
    /\ DuplicatedIds(raw.groups) = {}
    /\ error = DuplicateIdError("guest", "a")

\* C17: the request boundary accepts an affinity edge exactly when its score is
\* -1, 0 or +1: a request that is otherwise well-formed is rejected at the
\* boundary if and only if one of its edges has another score.
ScoreDomain ==
    (pc # "received" /\ ValidApartFromScores(raw)) =>
        (pc = "rejected" <=>
            \E k \in 1..Len(raw.affinities) : raw.affinities[k].score \notin {-1, 0, 1})

\* C18: in every OPTIMAL or FEASIBLE response the tables list has one entry per
\* request table in request order; entry i carries the id of request table i and
\* as many seat entries as its capacity; the k-th seat entry, occupied or empty,
\* has seat_index k counted from 0; each (table_id, seat_index) pair appears once.
SeatIndexing ==
    Solved =>
        /\ Len(response.tables) = Len(raw.tables)
        /\ \A i \in 1..Len(response.tables) :
            /\ response.tables[i].table_id = raw.tables[i].id
            /\ Len(response.tables[i].seats) = raw.tables[i].capacity
            /\ \A k \in 1..Len(response.tables[i].seats) :
                    response.tables[i].seats[k].seat_index = k - 1
        /\ \A i, j \in 1..Len(response.tables) :
            \A k \in 1..Len(response.tables[i].seats) :
                \A n \in 1..Len(response.tables[j].seats) :
                    (/\ response.tables[i].table_id = response.tables[j].table_id
                     /\ response.tables[i].seats[k].seat_index =
                            response.tables[j].seats[n].seat_index)
                        => (i = j /\ k = n)

\* C18 witness: a response for two tables in which an occupied seat and an empty
\* seat of the second table carry the indices 0 and 1.
SeatIndexingWitness ==
    /\ Solved
    /\ Len(response.tables) = 2
    /\ response.tables[2].table_id = "t2"
    /\ response.tables[2].seats[1] = [seat_index |-> 0, guest_id |-> {"a"}]
    /\ response.tables[2].seats[2] = [seat_index |-> 1, guest_id |-> {}]

\* C19: in every assignment the solver returns, at most one guest has x[g,t,s]
\* true for a seat (t,s); the guest the response reports on a seat is that one
\* guest, an empty seat has none, and no guest id is reported on two seats.
NoDoubleSeating ==
    Solved =>
        /\ \A p \in Seats(mapping) :
            LET here == {g \in Guests(mapping) : X(x, g, p[1], p[2])}
            IN  /\ Cardinality(here) <= 1
                /\ response.tables[p[1] + 1].seats[p[2] + 1].guest_id =
                        {mapping.guests[g + 1].id : g \in here}
        /\ \A i \in 1..Len(raw.guests) :
                Cardinality(SeatEntries(raw.guests[i].id)) <= 1

\* C19 witness: three guests are seated, the first two on the two seats of one
\* table, and the response reports each of them on their own seat.
NoDoubleSeatingWitness ==
    /\ Solved
    /\ Len(raw.guests) = 3
    /\ x[0] = {<<0, 1>>}
    /\ x[1] = {<<0, 0>>}
    /\ response.tables[1].seats[1].guest_id = {"b"}
    /\ response.tables[1].seats[2].guest_id = {"a"}

\* C20: the status of a response is one of the five names, the name of the code
\* the solver returned or UNKNOWN for a code outside the five; a response with
\* status OPTIMAL or FEASIBLE has an objective_value and a non-empty tables list,
\* and a response with any other status has no objective_value and no tables.
StatusShapesResponse ==
    pc = "returned" =>
        /\ response.status \in {"OPTIMAL", "FEASIBLE", "INFEASIBLE", "UNKNOWN", "MODEL_INVALID"}
        /\ \A code \in solver_status :
            response.status =
                CASE code = UNKNOWN -> "UNKNOWN"
                  [] code = MODEL_INVALID -> "MODEL_INVALID"
                  [] code = FEASIBLE -> "FEASIBLE"
                  [] code = INFEASIBLE -> "INFEASIBLE"
                  [] code = OPTIMAL -> "OPTIMAL"
                  [] OTHER -> "UNKNOWN"
        /\ solver_status # {}
        /\ IF response.status \in {"OPTIMAL", "FEASIBLE"}
           THEN response.objective_value # {} /\ response.tables # <<>>
           ELSE response.objective_value = {} /\ response.tables = <<>>

\* C20 witness: the solver returned a code outside the five on a request it
\* could have solved, and the response reads UNKNOWN with no tables and no
\* objective_value.
StatusShapesResponseWitness ==
    /\ pc = "returned"
    /\ solver_status = {OPTIMAL + 1}
    /\ Len(raw.guests) = 2
    /\ response = [status |-> "UNKNOWN", objective_value |-> {}, tables |-> <<>>]

\* C21: once the solver has been called the run ends with a response and no
\* exception: status UNKNOWN (the time limit passed with no incumbent) gives
\* empty tables and no objective_value, status FEASIBLE (an incumbent) gives the
\* tables of that seating and its objective value, and an infeasible problem
\* gives a response with status INFEASIBLE.
TimeLimitIsAResponse ==
    /\ solve_calls > 0 => (pc = "returned" /\ error = NoError)
    /\ pc = "returned" =>
        /\ solver_status = {UNKNOWN} =>
                response = [status |-> "UNKNOWN", objective_value |-> {}, tables |-> <<>>]
        /\ solver_status = {INFEASIBLE} =>
                response = [status |-> "INFEASIBLE", objective_value |-> {}, tables |-> <<>>]
        /\ solver_status = {FEASIBLE} =>
                /\ response.status = "FEASIBLE"
                /\ response.objective_value = {ObjectiveValue(objective_terms, x, mapping)}
                /\ \A g \in Guests(mapping) :
                    \A p \in x[g] :
                        response.tables[p[1] + 1].seats[p[2] + 1].guest_id =
                            {mapping.guests[g + 1].id}
        /\ (Solutions(raw.groups, mapping) = {} /\ solver_status # {UNKNOWN}) =>
                response.status = "INFEASIBLE"

\* C21 witness: a and b like each other and there is room to seat them together,
\* yet the solver stopped on an incumbent that seats them apart; the response is
\* FEASIBLE with that seating and objective_value 0.
TimeLimitIsAResponseWitness ==
    /\ pc = "returned"
    /\ raw.affinities = <<E("a", "b", 1, {})>>
    /\ solver_status = {FEASIBLE}
    /\ response.status = "FEASIBLE"
    /\ response.objective_value = {0}
    /\ TableIdsOf("a") = {"t1"}
    /\ TableIdsOf("b") = {"t2"}

\* C22: for every adjacent group of size n, every assignment that satisfies the
\* assignment constraints, the link of y to x and the block constraints puts the
\* n members on n seats of one table that are consecutive around it; and every
\* OPTIMAL or FEASIBLE response seats each adjacent group of the request on such
\* a block.
BlockContiguity ==
    /\ (pc = "mapped" /\ raw.adjacent_groups # <<>>) =>
        LET groups == AdjacentGroupIndices(raw, mapping)
            caps == [t \in Tables(mapping) |-> capacity(mapping, t)]
        IN  \A xv \in SeatAssignments(mapping) :
                (/\ add_assignment_constraints(xv, mapping)
                 /\ add_adjacent_group_constraints(xv, link_y_to_x(xv, mapping),
                                                   groups, mapping)) =>
                    \A i \in 1..Len(groups) :
                        IsCircularBlock(UNION {xv[g] : g \in Range(groups[i])},
                                        Len(groups[i]), caps)
    /\ Solved =>
        \A i \in 1..Len(raw.adjacent_groups) :
            IsCircularBlock(ResponseSeatsOf(Range(raw.adjacent_groups[i])),
                            Len(raw.adjacent_groups[i]),
                            [t \in 1..Len(raw.tables) |-> raw.tables[t].capacity])

\* C23: in every OPTIMAL or FEASIBLE response two guests that name each other as
\* partner sit at the same table on seats whose indices are neighbours modulo the
\* capacity of that table.
PartnerAdjacency ==
    Solved =>
        \A i, j \in 1..Len(raw.guests) :
            MutualPartners(raw, i, j) =>
                \A p \in ResponseSeatsOf({raw.guests[i].id}) :
                    \A q \in ResponseSeatsOf({raw.guests[j].id}) :
                        NeighbourSeats(p, q,
                            [t \in 1..Len(raw.tables) |-> raw.tables[t].capacity])

\* C24: a request with unique ids in which a guest names a partner that does not
\* name them back ends with AsymmetricPartner, one in which a guest names itself
\* ends with PartnerCycle, and in both cases the solver is not called.
PartnerRelationValidated ==
    (/\ pc \in Terminal
     /\ OptimizeRequest(raw)
     /\ ~ViolatesUniqueness(raw)) =>
        /\ (\E i \in 1..Len(raw.guests) : NamesItself(raw, i)) =>
                (pc = "raised" /\ error.kind = "PartnerCycle" /\ solve_calls = 0)
        /\ (/\ \E i \in 1..Len(raw.guests) : NotNamedBack(raw, i)
            /\ \A i \in 1..Len(raw.guests) : ~NamesItself(raw, i)) =>
                (pc = "raised" /\ error.kind = "AsymmetricPartner" /\ solve_calls = 0)

\* C25: a request with no fault whose affinity list holds several edges on one
\* unordered pair, in the same or the reversed orientation and with scores of
\* either sign, is answered, and its objective puts the sum of the scores of
\* those edges on the one co-location variable of the pair.
DuplicateEdgesSum ==
    (/\ pc \in Terminal
     /\ ValidApartFromScores(raw)
     /\ ~ViolatesUniqueness(raw)
     /\ ~GroupNamesUnknownGuest(raw)
     /\ ~AffinityNamesUnknownGuest(raw)
     /\ HasRepeatedPair(raw)) =>
        /\ pc = "returned"
        /\ \A i, j \in 1..Len(raw.guests) :
                i < j => ColocationCoefficient(i - 1, j - 1) =
                            ScoreSum(raw, raw.guests[i].id, raw.guests[j].id)

\* C26 as stated: for one guest, one table of capacity >= 2 and no affinities,
\* every response has status OPTIMAL, the guest at seat index 0 and
\* objective_value 0.
SingleGuestAtSeatZero ==
    (pc \in Terminal /\ SingleGuestSingleTable(raw)) =>
        /\ pc = "returned"
        /\ response.status = "OPTIMAL"
        /\ response.objective_value = {0}
        /\ response.tables[1].seats[1] =
                [seat_index |-> 0, guest_id |-> {raw.guests[1].id}]

\* C26 amended: for one guest, one table of capacity >= 2 and no affinities, the
\* run ends with a response that is never INFEASIBLE; an OPTIMAL or FEASIBLE
\* response has objective_value 0 and the guest on exactly one seat of the
\* table, every other seat empty; which seat is the solver's choice.
SingleGuestSeated ==
    (pc \in Terminal /\ SingleGuestSingleTable(raw)) =>
        /\ pc = "returned"
        /\ response.status \in {"OPTIMAL", "FEASIBLE", "UNKNOWN"}
        /\ Solved =>
            /\ response.objective_value = {0}
            /\ Cardinality(SeatEntries(raw.guests[1].id)) = 1
            /\ Cardinality(EmptySeatEntries) = raw.tables[1].capacity - 1

\* C26 witness: the single guest is seated at seat index 1 in an OPTIMAL
\* response, seat 0 left empty.
SingleGuestSeatedWitness ==
    /\ pc = "returned"
    /\ SingleGuestSingleTable(raw)
    /\ response.status = "OPTIMAL"
    /\ response.objective_value = {0}
    /\ response.tables[1].seats[1] = [seat_index |-> 0, guest_id |-> {}]
    /\ response.tables[1].seats[2] = [seat_index |-> 1, guest_id |-> {raw.guests[1].id}]

OneColocationVarPerPair ==
    pc \in {"objective", "returned"} =>
        /\ \A key \in colocated_vars : key[1] <= key[2]
        /\ Cardinality(colocated_vars) = Cardinality(EdgePairs(raw))
        /\ num_vars = _create_decision_variables(mapping)
                        + Cardinality(colocated_vars) * (1 + num_tables(mapping))
                        + Cardinality(adjacent_vars) * (1 + 2 * mapping.total_seats)

\* C29 witness: the edges (a, b) and (b, a) were processed and share the one
\* variable of the key (0, 1).
OneColocationVarPerPairWitness ==
    /\ pc = "objective"
    /\ raw.affinities = <<E("a", "b", 1, {}), E("b", "a", 2, {})>>
    /\ colocated_vars = {<<0, 1>>}
    /\ Len(objective_terms) = 2

\* C30: after build_objective the pairs that own a co-location variable are the
\* pairs with at least one edge of nonzero score, an edge of score 0 adds no
\* term to the objective, and a list whose edges all have score 0 gives the
\* constant objective 0.
ZeroScoreAllocatesNothing ==
    pc \in {"objective", "returned"} =>
        /\ PairsWithVariable = ScoredPairs(raw)
        /\ \A i, j \in 1..Len(raw.guests) :
                ScoreSum(raw, raw.guests[i].id, raw.guests[j].id) = 0 =>
                    ColocatedTermsOn(i - 1, j - 1) = {}
        /\ ScoredPairs(raw) = {} => objective_terms = <<>>

====
